---- MODULE Spec2Model ----
(***************************************************************************)
(* The resilient API client layer of the policy front end: the toast bus   *)
(* (publishToast / subscribeToasts), the axios client with its request and *)
(* response interceptors, the error-toast deduplicator and the 401 session *)
(* guard.                                                                  *)
(*                                                                         *)
(* JavaScript strings are modelled as sequences of symbols: a symbol is a  *)
(* TLA+ string standing for one character or for one indivisible piece of  *)
(* text; " " is the whitespace symbol.  Concatenation is \o.               *)
(***************************************************************************)
EXTENDS Integers, Sequences, FiniteSets

(***************************************************************************)
(* Bounds of the model.                                                    *)
(***************************************************************************)
MaxRequests == 3
MaxInflight == 2
MaxTicks == 3
TickMs == 1500
MaxTotal == 5
MaxNameLen == 2
MaxToasts == 2
ToastTickMs == 2500

(***************************************************************************)
(* Program constants.                                                      *)
(***************************************************************************)
ERROR_TOAST_DEDUP_WINDOW_MS == 3000
UNAUTHORIZED == 401

RequestIds == 1..MaxRequests

StorageKeys == {"access_token", "csrf_token", "user"}
Absent == "<absent>"

\* The value stored under a key when one is stored.
StoredValue(k) ==
    CASE k = "access_token" -> "<access token>"
      [] k = "csrf_token" -> "<csrf token>"
      [] k = "user" -> "<user json>"

\* localStorage with the keys of S stored.
StorageWith(S) ==
    [k \in StorageKeys |-> IF k \in S THEN StoredValue(k) ELSE Absent]

---------------------------------------------------------------------------
(* Strings.                                                                *)

Digit(d) ==
    CASE d = 0 -> "0" [] d = 1 -> "1" [] d = 2 -> "2" [] d = 3 -> "3"
      [] d = 4 -> "4" [] d = 5 -> "5" [] d = 6 -> "6" [] d = 7 -> "7"
      [] d = 8 -> "8" [] d = 9 -> "9"

RECURSIVE NumToStr(_)
NumToStr(n) ==
    IF n < 10 THEN <<Digit(n)>> ELSE NumToStr(n \div 10) \o <<Digit(n % 10)>>

\* s.trim() is the empty string: s holds whitespace only.
TrimIsEmpty(s) == \A i \in 1..Len(s) : s[i] = " "

StartsWith(s, prefix) ==
    /\ Len(s) >= Len(prefix)
    /\ SubSeq(s, 1, Len(prefix)) = prefix

LoginPath == <<"/", "l", "o", "g", "i", "n">>

Paths ==
    { <<"/">>,
      <<"/", "l", "i", "b">>,
      LoginPath,
      LoginPath \o <<"/", "x">>,
      <<"/", "l", "o", "g">> }

---------------------------------------------------------------------------
(* Toasts and the toast bus.                                               *)

SessionExpiredMessage == <<"Session expired. Please log in again.">>
UnexpectedErrorMessage == <<"Unexpected network error. Please try again.">>
PdfStartedMessage == <<"PDF download started.">>
ZipStartedMessage == <<"ZIP download started.">>

SessionExpiredToast == [message |-> SessionExpiredMessage, type |-> "warning"]
ErrorToast(message) == [message |-> message, type |-> "error"]
PdfStartedToast == [message |-> PdfStartedMessage, type |-> "success"]
ZipStartedToast == [message |-> ZipStartedMessage, type |-> "success"]

\* The handlers that subscribe.  A handler is a function with fixed code:
\* the ToastProvider's listener returns; the others stand for what a
\* ToastListener may do: throw, or call the bus again.
ProviderListener == "provider"
FailingListener == "failing"
JoiningListener == "joiner"
LateListener == "late"
LeavingListener == "leaver"

Handlers ==
    {ProviderListener, FailingListener, JoiningListener, LateListener,
     LeavingListener}

\* What one invocation of handler h does.
Behaviour(h) ==
    CASE h = ProviderListener -> [k |-> "return", h |-> h]
      [] h = LateListener -> [k |-> "return", h |-> h]
      [] h = FailingListener -> [k |-> "throw", h |-> h]
      [] h = JoiningListener -> [k |-> "subscribe", h |-> LateListener]
      [] h = LeavingListener -> [k |-> "unsubscribe", h |-> ProviderListener]

IndexOf(ls, h) ==
    IF \E i \in 1..Len(ls) : ls[i] = h
    THEN CHOOSE i \in 1..Len(ls) : ls[i] = h
    ELSE 0

\* Set.prototype.add: appended in insertion order unless already present.
SetAdd(ls, h) == IF IndexOf(ls, h) > 0 THEN ls ELSE Append(ls, h)

\* Set.prototype.clear in the place of delete: every handler is removed.
SetClear(ls, h) == <<>>

\* Set.prototype.delete.
SetDelete(ls, h) == SelectSeq(ls, LAMBDA x : x # h)

\* Set.prototype.forEach over the live set: entries added during the walk
\* are visited, entries deleted before being reached are not; an exception
\* of the callback ends the walk and propagates.
RECURSIVE ForEach(_, _, _)
ForEach(ls, i, called) ==
    IF i > Len(ls)
    THEN [ls |-> ls, called |-> called, threw |-> FALSE]
    ELSE LET h == ls[i]
             b == Behaviour(h)
             called2 == Append(called, h)
             j == IndexOf(ls, b.h)
         IN  CASE b.k = "throw" ->
                    [ls |-> ls, called |-> called2, threw |-> TRUE]
               [] b.k = "return" ->
                    ForEach(ls, i + 1, called2)
               [] b.k = "subscribe" ->
                    ForEach(SetAdd(ls, b.h), i + 1, called2)
               [] b.k = "unsubscribe" ->
                    ForEach(SetDelete(ls, b.h),
                            IF j > 0 /\ j <= i THEN i ELSE i + 1,
                            called2)

\* What the history keeps of a publishToast call.
CallRecord(p) ==
    [toast |-> p.toast, before |-> p.before, called |-> p.called,
     threw |-> p.threw]

\* publishToast(toast) on the listener set ls: the toast, the handlers
\* invoked in order, whether the call threw, the listener set afterwards.
PublishToast(ls, toast) ==
    LET r == ForEach(ls, 1, <<>>)
    IN  [toast |-> toast, before |-> ls, called |-> r.called,
         threw |-> r.threw, after |-> r.ls]

---------------------------------------------------------------------------
(* Failures handed to the response interceptor (AxiosError).               *)

NoData == [kind |-> "undefined", str |-> <<>>]
StringData(s) == [kind |-> "string", str |-> s]
DetailData(s) == [kind |-> "detail-string", str |-> s]

StatusMessage(n) == <<"Request failed with status code ">> \o NumToStr(n)

HttpError(status, data) ==
    [hasResponse |-> TRUE, status |-> status, data |-> data,
     code |-> IF status >= 500 THEN "ERR_BAD_RESPONSE" ELSE "ERR_BAD_REQUEST",
     message |-> StatusMessage(status)]

NetworkError ==
    [hasResponse |-> FALSE, status |-> 0, data |-> NoData,
     code |-> "ERR_NETWORK", message |-> <<"Network Error">>]

\* axios raises a cancellation before any response exists.
CanceledError ==
    [hasResponse |-> FALSE, status |-> 0, data |-> NoData,
     code |-> "ERR_CANCELED", message |-> <<"canceled">>]

\* What a throwing listener raises out of publishToast.
ListenerException ==
    [hasResponse |-> FALSE, status |-> 0, data |-> NoData,
     code |-> "<listener exception>", message |-> <<"listener failed">>]

NoError ==
    [hasResponse |-> FALSE, status |-> 0, data |-> NoData,
     code |-> "<none>", message |-> <<>>]

Boom == <<"b", "o", "o", "m">>

UnauthorizedErrors == {HttpError(UNAUTHORIZED, DetailData(<<"Not authenticated">>))}

GenericErrors ==
    { HttpError(500, StringData(Boom)),
      HttpError(500, DetailData(Boom)),
      HttpError(404, StringData(Boom)),
      NetworkError }

Errors == UnauthorizedErrors \cup GenericErrors \cup {CanceledError}

\* An object body without a detail field, and one whose detail is not a
\* string (a list of validation errors).
ObjectData == [kind |-> "object", str |-> <<>>]
ListDetailData == [kind |-> "detail-list", str |-> <<>>]

\* The bodies of failed responses: none, a string, an object with a string
\* detail (each empty, blank or with text), other objects.
ErrorBodies ==
    {NoData, ObjectData, ListDetailData}
    \cup {StringData(s) : s \in {<<>>, <<" ">>, Boom}}
    \cup {DetailData(s) : s \in {<<>>, <<" ">>, <<"d", "e", "n", "y">>}}

\* The failures over which the message is extracted: every body with an
\* empty, a blank and a worded error.message; and no response at all.
MessageErrors ==
    {[HttpError(500, data) EXCEPT !.message = message] :
         data \in ErrorBodies,
         message \in {<<>>, <<" ">>, StatusMessage(500)}}
    \cup {HttpError(404, StringData(Boom))}
    \cup {[NetworkError EXCEPT !.message = message] :
              message \in {<<>>, <<" ">>, <<"Network Error">>}}

\* Variant of ExtractErrorMessage: the detail field is not looked at.
ExtractErrorMessageNoDetail(error) ==
    LET responseData == IF error.hasResponse THEN error.data ELSE NoData
    IN  IF responseData.kind = "string" /\ ~TrimIsEmpty(responseData.str)
        THEN responseData.str
        ELSE IF ~TrimIsEmpty(error.message)
        THEN error.message
        ELSE UnexpectedErrorMessage

ExtractErrorMessage(error) ==
    LET responseData == IF error.hasResponse THEN error.data ELSE NoData
    IN  IF responseData.kind = "string" /\ ~TrimIsEmpty(responseData.str)
        THEN responseData.str
        ELSE IF responseData.kind = "detail-string"
                    /\ ~TrimIsEmpty(responseData.str)
        THEN responseData.str
        ELSE IF ~TrimIsEmpty(error.message)
        THEN error.message
        ELSE UnexpectedErrorMessage

\* Variant of ToastKey: the status is left out of the key.
ToastKeyWithoutStatus(error, message) == <<":">> \o message

ToastKey(error, message) ==
    LET status == IF error.hasResponse
                  THEN NumToStr(error.status)
                  ELSE <<"network">>
    IN  status \o <<":">> \o message

\* Variant of IsDuplicate: the window's end is counted as inside.
IsDuplicateInclusive(key, lastKey, lastAt, t) ==
    key = lastKey /\ t - lastAt <= ERROR_TOAST_DEDUP_WINDOW_MS

\* Variant of IsDuplicate: the key is not compared.
IsDuplicateAnyKey(key, lastKey, lastAt, t) ==
    lastKey # <<>> /\ t - lastAt < ERROR_TOAST_DEDUP_WINDOW_MS

IsDuplicate(key, lastKey, lastAt, t) ==
    key = lastKey /\ t - lastAt < ERROR_TOAST_DEDUP_WINDOW_MS

\* Variant of PublishErrorToast: a suppressed failure restarts the window.
PublishErrorToastSliding(error, ls, lastKey, lastAt, t) ==
    LET message == ExtractErrorMessage(error)
        key == ToastKey(error, message)
        p == PublishToast(ls, ErrorToast(message))
    IN  IF IsDuplicate(key, lastKey, lastAt, t)
        THEN [lastKey |-> lastKey, lastAt |-> t, pub |-> <<>>,
              ls |-> ls, threw |-> FALSE]
        ELSE [lastKey |-> key, lastAt |-> t, pub |-> <<p>>,
              ls |-> p.after, threw |-> p.threw]

\* publishErrorToast(error) at time t: the new deduplicator state, the
\* publishToast calls made, the listener set afterwards.
PublishErrorToast(error, ls, lastKey, lastAt, t) ==
    LET message == ExtractErrorMessage(error)
        key == ToastKey(error, message)
        p == PublishToast(ls, ErrorToast(message))
    IN  IF IsDuplicate(key, lastKey, lastAt, t)
        THEN [lastKey |-> lastKey, lastAt |-> lastAt, pub |-> <<>>,
              ls |-> ls, threw |-> FALSE]
        ELSE [lastKey |-> key, lastAt |-> t, pub |-> <<p>>,
              ls |-> p.after, threw |-> p.threw]

IsUnauthorized(error) == error.hasResponse /\ error.status = UNAUTHORIZED

\* Variant of IsCanceled: the cancellation marker is not looked at.
IsCanceledNever(error) == FALSE

IsCanceled(error) == error.code = "ERR_CANCELED"

\* Variant of ShouldRedirect: the location is not looked at.
ShouldRedirectAlways(path) == TRUE

ShouldRedirect(path) == ~StartsWith(path, LoginPath)

RemovedKeys == <<"access_token", "csrf_token", "user">>

RECURSIVE RemoveItems(_, _)
RemoveItems(store, keys) ==
    IF keys = <<>> THEN store
    ELSE RemoveItems([store EXCEPT ![Head(keys)] = Absent], Tail(keys))

\* The (status, message) pair of a failure; network is "no response".
StatusAndMessage(error) ==
    [network |-> ~error.hasResponse,
     status |-> IF error.hasResponse THEN error.status ELSE 0,
     message |-> ExtractErrorMessage(error)]

\* Variant of OnUnauthorized: the 401 branch also forgets the last error
\* toast.
OnUnauthorizedForgetting(error, ls, lastKey, lastAt, store, path) ==
    LET p == PublishToast(ls, SessionExpiredToast)
    IN  IF p.threw
        THEN [ls |-> p.after, lastKey |-> <<>>, lastAt |-> 0,
              store |-> store, pub |-> <<p>>, removed |-> <<>>,
              nav |-> FALSE, rejectedWith |-> ListenerException]
        ELSE [ls |-> p.after, lastKey |-> <<>>, lastAt |-> 0,
              store |-> RemoveItems(store, RemovedKeys), pub |-> <<p>>,
              removed |-> RemovedKeys, nav |-> ShouldRedirect(path),
              rejectedWith |-> error]

\* The 401 branch of the response interceptor's failure handler.
OnUnauthorized(error, ls, lastKey, lastAt, store, path) ==
    LET p == PublishToast(ls, SessionExpiredToast)
    IN  IF p.threw
        THEN [ls |-> p.after, lastKey |-> lastKey, lastAt |-> lastAt,
              store |-> store, pub |-> <<p>>, removed |-> <<>>,
              nav |-> FALSE, rejectedWith |-> ListenerException]
        ELSE [ls |-> p.after, lastKey |-> lastKey, lastAt |-> lastAt,
              store |-> RemoveItems(store, RemovedKeys), pub |-> <<p>>,
              removed |-> RemovedKeys, nav |-> ShouldRedirect(path),
              rejectedWith |-> error]

\* The failure handler of client.interceptors.response.use: its effects and
\* the value its promise rejects with.
OnRejected(error, ls, lastKey, lastAt, t, store, path) ==
    LET e == PublishErrorToast(error, ls, lastKey, lastAt, t)
    IN  IF IsUnauthorized(error)
        THEN OnUnauthorized(error, ls, lastKey, lastAt, store, path)
        ELSE IF ~IsCanceled(error)
        THEN [ls |-> e.ls, lastKey |-> e.lastKey, lastAt |-> e.lastAt,
              store |-> store, pub |-> e.pub, removed |-> <<>>,
              nav |-> FALSE,
              rejectedWith |-> IF e.threw THEN ListenerException ELSE error]
        ELSE [ls |-> ls, lastKey |-> lastKey, lastAt |-> lastAt,
              store |-> store, pub |-> <<>>, removed |-> <<>>,
              nav |-> FALSE, rejectedWith |-> error]

---------------------------------------------------------------------------
(* Requests handed to the request interceptor (InternalAxiosRequestConfig). *)

LowerLetters ==
    <<"a", "b", "c", "d", "e", "f", "g", "h", "i", "j", "k", "l", "m",
      "n", "o", "p", "q", "r", "s", "t", "u", "v", "w", "x", "y", "z">>

UpperLetters ==
    <<"A", "B", "C", "D", "E", "F", "G", "H", "I", "J", "K", "L", "M",
      "N", "O", "P", "Q", "R", "S", "T", "U", "V", "W", "X", "Y", "Z">>

\* String.prototype.toUpperCase.
ToUpperCase(s) ==
    [i \in 1..Len(s) |->
        IF \E n \in 1..Len(LowerLetters) : LowerLetters[n] = s[i]
        THEN UpperLetters[CHOOSE n \in 1..Len(LowerLetters) :
                              LowerLetters[n] = s[i]]
        ELSE s[i]]

MUTATING_METHODS ==
    { <<"P", "O", "S", "T">>, <<"P", "U", "T">>,
      <<"P", "A", "T", "C", "H">>, <<"D", "E", "L", "E", "T", "E">> }

\* config.method: undefined, or a string.
NoMethod == [defined |-> FALSE, str |-> <<>>]
Method(s) == [defined |-> TRUE, str |-> s]

\* The headers of axios.create: every request starts with them.
DefaultHeaders == {<<"Content-Type", <<"application/json">>>>}

\* config.headers[name] = value.
SetHeader(headers, name, value) ==
    {p \in headers : p[1] # name} \cup {<<name, value>>}

\* A value is truthy: neither null nor the empty string.
Truthy(v) == v # Absent /\ v # ""

\* Variant of NormalizeMethod: the method is compared as given.
NormalizeMethodAsGiven(method) ==
    IF method.defined /\ method.str # <<>>
    THEN method.str
    ELSE <<"G", "E", "T">>

\* (config.method || 'GET').toUpperCase().
NormalizeMethod(method) ==
    ToUpperCase(IF method.defined /\ method.str # <<>>
                THEN method.str
                ELSE <<"G", "E", "T">>)

\* The request handler of client.interceptors.request.use: the config it
\* returns, with localStorage as store.
RequestInterceptor(config, store) ==
    LET token == store["access_token"]
        withAuth ==
            IF Truthy(token)
            THEN SetHeader(config.headers, "Authorization",
                           <<"Bearer ", token>>)
            ELSE config.headers
        method == NormalizeMethod(config.method)
        csrfToken == store["csrf_token"]
        withCsrf ==
            IF method \in MUTATING_METHODS /\ Truthy(csrfToken)
            THEN SetHeader(withAuth, "x-csrf-token", <<csrfToken>>)
            ELSE withAuth
    IN  [config EXCEPT !.headers = withCsrf]

\* A request as a caller hands it to the client.
Request(method, url) ==
    [method |-> method, url |-> url, headers |-> DefaultHeaders]

\* client.get('/api/documents', ...), as getDocuments issues it.
ListRequest == Request(Method(<<"g", "e", "t">>), <<"/api/documents">>)

\* client.get(`/api/documents/${documentId}/download`, ...).
DownloadRequest(documentId) ==
    Request(Method(<<"g", "e", "t">>),
            <<"/api/documents/">> \o NumToStr(documentId) \o <<"/download">>)

\* client.get('/api/documents/download-all/zip', ...).
DownloadAllRequest ==
    Request(Method(<<"g", "e", "t">>), <<"/api/documents/download-all/zip">>)

\* The requests of the documents API and of other callers of the client:
\* every mutating method, in the lower case axios gives a method, in upper
\* and in mixed case; methods that do not mutate; no method; and a request
\* whose caller supplied an Authorization header.
RequestConfigs ==
    { ListRequest,
      Request(Method(<<"p", "u", "t">>), <<"/api/documents/1/approve">>),
      Request(Method(<<"d", "e", "l", "e", "t", "e">>), <<"/api/documents/1">>),
      Request(Method(<<"p", "o", "s", "t">>), <<"/api/x">>),
      Request(Method(<<"P", "A", "T", "C", "H">>), <<"/api/x">>),
      Request(Method(<<"P", "o", "s", "t">>), <<"/api/x">>),
      Request(Method(<<"h", "e", "a", "d">>), <<"/api/x">>),
      Request(Method(<<>>), <<"/api/x">>),
      Request(NoMethod, <<"/api/x">>),
      [Request(Method(<<"p", "u", "t">>), <<"/api/x">>)
          EXCEPT !.headers = SetHeader(DefaultHeaders, "Authorization",
                                       <<"Basic ", "<caller>">>)] }

\* No request was sent yet.
NoRequest == [config |-> Request(NoMethod, <<>>), sent |-> Request(NoMethod, <<>>)]

---------------------------------------------------------------------------
(* documentsApi.getDocuments.                                              *)

\* A number that may be undefined.
Undefined == [defined |-> FALSE, n |-> 0]
Num(n) == [defined |-> TRUE, n |-> n]

\* a || b || c on numbers: the first that is neither undefined nor 0.
FirstTruthy(a, b, c) ==
    IF a.defined /\ a.n # 0 THEN a.n
    ELSE IF b.defined /\ b.n # 0 THEN b.n
    ELSE c

EMPTY_RESPONSE ==
    [documents |-> <<>>, total |-> 0, limit |-> 20, offset |-> 0,
     has_more |-> FALSE, items |-> <<>>, pages |-> 1, page |-> 1,
     page_size |-> 20]

\* The filters of a call, as far as the result depends on them.
Filters(limit, page) == [limit |-> limit, page |-> page]
NoFilters == Filters(Undefined, Undefined)

ListFilters ==
    { Filters(limit, page) : limit \in {Undefined, Num(3)},
                             page \in {Undefined, Num(2)} }

\* response.data of the list endpoint; documents are named by their ids.
ListBody(documents, total, limit) ==
    [present |-> TRUE,
     documents |-> [defined |-> TRUE, items |-> documents],
     total |-> total, limit |-> limit, offset |-> Num(0),
     has_more |-> [defined |-> TRUE, b |-> FALSE]]

\* A response without a body.
NoBody ==
    [present |-> FALSE,
     documents |-> [defined |-> FALSE, items |-> <<>>],
     total |-> Undefined, limit |-> Undefined, offset |-> Undefined,
     has_more |-> [defined |-> FALSE, b |-> FALSE]]

\* The response of the scenario: an empty library.
EmptyLibraryBody == ListBody(<<>>, Num(0), Num(20))

\* Totals up to MaxTotal, and totals around one and two pages of 20.
Totals == (0..MaxTotal) \cup {20, 21, 40, 41}

ListBodies ==
    { ListBody(IF total = 0 THEN <<>> ELSE <<1>>, Num(total), limit) :
          total \in Totals, limit \in {Undefined, Num(0), Num(2), Num(20)} }
    \cup {NoBody, ListBody(<<1>>, Undefined, Num(2))}

\* Variant of Ceil: the quotient is rounded down.
Floor(total, limit) == total \div limit

\* Math.ceil(total / limit), for a total >= 0 and a limit > 0.
Ceil(total, limit) == (total + limit - 1) \div limit

\* The value getDocuments returns for response.data and its filters.
GetDocumentsResult(data, filters) ==
    LET docs == IF data.documents.defined THEN data.documents.items ELSE <<>>
        total == FirstTruthy(data.total, Undefined, 0)
        limit == FirstTruthy(data.limit, filters.limit, 20)
        pages == Ceil(total, limit)
    IN  [documents |-> docs,
         total |-> total,
         limit |-> IF data.limit.defined THEN data.limit.n
                   ELSE EMPTY_RESPONSE.limit,
         offset |-> IF data.offset.defined THEN data.offset.n
                    ELSE EMPTY_RESPONSE.offset,
         has_more |-> IF data.has_more.defined THEN data.has_more.b
                      ELSE EMPTY_RESPONSE.has_more,
         items |-> docs,
         pages |-> IF pages = 0 THEN 1 ELSE pages,
         page |-> FirstTruthy(filters.page, Undefined, 1),
         page_size |-> limit]

\* Variant of GetDocumentsCatch: the failure is passed on to the caller.
GetDocumentsRethrow(error) ==
    [settled |-> "rejected", result |-> EMPTY_RESPONSE, error |-> error]

\* The catch block of getDocuments.
GetDocumentsCatch(error) ==
    [settled |-> "resolved", result |-> EMPTY_RESPONSE, error |-> NoError]

---------------------------------------------------------------------------
(* The download extractor: extractFilename and triggerBrowserDownload.     *)
(* A Content-Disposition value is a sequence of symbols: the parameter     *)
(* markers and the words around them are one symbol each, the characters   *)
(* of a file name are one symbol each.                                     *)

Quote == "\""
Semicolon == ";"
Percent == "%"
EAcute == "<e-acute>"

\* The characters of file names: a letter, the space, the characters that
\* delimit the parameters, the percent sign, and one outside ASCII.
NameChars == {"a", " ", Semicolon, Quote, Percent, EAcute}

\* The strings over an alphabet, up to a length.
RECURSIVE StringsUpTo(_, _)
StringsUpTo(chars, n) ==
    IF n = 0 THEN {<<>>}
    ELSE LET shorter == StringsUpTo(chars, n - 1)
         IN  shorter \cup {Append(s, c) : s \in shorter, c \in chars}

Names == StringsUpTo(NameChars, MaxNameLen)

\* encodeURIComponent of one character: the UTF-8 bytes of a character that
\* is not unreserved, each as % and two hexadecimal digits.
EncodeChar(c) ==
    CASE c = " " -> <<"%", "2", "0">>
      [] c = Quote -> <<"%", "2", "2">>
      [] c = Percent -> <<"%", "2", "5">>
      [] c = Semicolon -> <<"%", "3", "B">>
      [] c = EAcute -> <<"%", "C", "3", "%", "A", "9">>
      [] OTHER -> <<c>>

\* encodeURIComponent.
RECURSIVE PercentEncode(_)
PercentEncode(s) ==
    IF s = <<>> THEN <<>> ELSE EncodeChar(Head(s)) \o PercentEncode(Tail(s))

\* The characters whose escape sequence starts the text s.
EscapedAt(s) ==
    {c \in NameChars :
        /\ EncodeChar(c) # <<c>>
        /\ StartsWith(s, EncodeChar(c))}

\* Variant of PercentDecode: the text is taken as it is.
PercentDecodeNothing(s) == [ok |-> TRUE, str |-> s]

\* decodeURIComponent: ok is FALSE when it throws URIError, which it does
\* at a % that does not start the escape sequence of a character.
RECURSIVE PercentDecode(_)
PercentDecode(s) ==
    IF s = <<>> THEN [ok |-> TRUE, str |-> <<>>]
    ELSE IF Head(s) # Percent
    THEN LET rest == PercentDecode(Tail(s))
         IN  [ok |-> rest.ok, str |-> <<Head(s)>> \o rest.str]
    ELSE IF EscapedAt(s) = {}
    THEN [ok |-> FALSE, str |-> <<>>]
    ELSE LET c == CHOOSE x \in EscapedAt(s) : TRUE
             rest == PercentDecode(SubSeq(s, Len(EncodeChar(c)) + 1, Len(s)))
         IN  [ok |-> rest.ok, str |-> <<c>> \o rest.str]

\* The parameter markers as a server may write them; the expressions of
\* extractFilename ignore case.
ExtMarkers == {"filename*=UTF-8''", "FILENAME*=utf-8''"}
PlainMarkers == {"filename=", "FILENAME="}

\* The end of the longest run of symbols other than stop that starts at
\* position start of s (start - 1 when the run is empty).
RunEnd(s, start, stop) ==
    LET stops == {k \in start..Len(s) : s[k] = stop}
    IN  IF stops = {} THEN Len(s)
        ELSE (CHOOSE k \in stops : \A m \in stops : k <= m) - 1

\* /filename\*=UTF-8''([^;]+)/i.exec(s): the captured group of the leftmost
\* match, <<>> when there is no match.
Utf8Match(s) ==
    LET at == {i \in 1..Len(s) :
                 /\ s[i] \in ExtMarkers
                 /\ RunEnd(s, i + 1, Semicolon) >= i + 1}
        first == CHOOSE i \in at : \A m \in at : i <= m
    IN  IF at = {} THEN <<>>
        ELSE SubSeq(s, first + 1, RunEnd(s, first + 1, Semicolon))

\* Where the group of /filename="?([^"]+)"?/i starts for a match at i: after
\* the quote when one follows the marker.
PlainStart(s, i) == IF i < Len(s) /\ s[i + 1] = Quote THEN i + 2 ELSE i + 1

\* /filename="?([^"]+)"?/i.exec(s): the captured group of the leftmost
\* match, <<>> when there is no match.
PlainMatch(s) ==
    LET at == {i \in 1..Len(s) :
                 /\ s[i] \in PlainMarkers
                 /\ RunEnd(s, PlainStart(s, i), Quote) >= PlainStart(s, i)}
        first == CHOOSE i \in at : \A m \in at : i <= m
    IN  IF at = {} THEN <<>>
        ELSE SubSeq(s, PlainStart(s, first),
                    RunEnd(s, PlainStart(s, first), Quote))

ExtractFilename(contentDisposition, fallback) ==
    LET utf8Match == Utf8Match(contentDisposition)
        decoded == PercentDecode(utf8Match)
        plainMatch == PlainMatch(contentDisposition)
    IN  IF contentDisposition = <<>> THEN fallback
        ELSE IF utf8Match # <<>>
        THEN IF decoded.ok THEN decoded.str ELSE utf8Match
        ELSE IF plainMatch # <<>> THEN plainMatch
        ELSE fallback

\* A Content-Disposition value as a server composes it: the plain and the
\* extended filename parameter, each given or not, a further parameter after
\* them or not, the markers in upper or lower case.
Disposition(plain, ext, extra, upper) ==
    [plain |-> plain, ext |-> ext, extra |-> extra, upper |-> upper]

NoParam == [given |-> FALSE, value |-> <<>>, quoted |-> FALSE]
Plain(name, quoted) == [given |-> TRUE, value |-> name, quoted |-> quoted]
Ext(value) == [given |-> TRUE, value |-> value, quoted |-> FALSE]

\* The text of a Content-Disposition value.
Render(d) ==
    <<"attachment">>
    \o (IF d.plain.given
        THEN <<Semicolon, " ", IF d.upper THEN "FILENAME=" ELSE "filename=">>
             \o (IF d.plain.quoted
                 THEN <<Quote>> \o d.plain.value \o <<Quote>>
                 ELSE d.plain.value)
        ELSE <<>>)
    \o (IF d.ext.given
        THEN <<Semicolon, " ",
               IF d.upper THEN "FILENAME*=utf-8''" ELSE "filename*=UTF-8''">>
             \o d.ext.value
        ELSE <<>>)
    \o (IF d.extra THEN <<Semicolon, " ", "size=1">> ELSE <<>>)

\* The header of the round trip: "attachment; filename*=UTF-8''" followed by
\* the percent-encoded name.
RoundTrip(f) == Disposition(NoParam, Ext(PercentEncode(f)), FALSE, FALSE)

\* Names a server writes in the plain form: without quotes; and, unquoted,
\* without the characters that end a token.
QuotedNames == {f \in Names : f # <<>> /\ \A i \in 1..Len(f) : f[i] # Quote}
TokenNames == {f \in QuotedNames : \A i \in 1..Len(f) : f[i] \in {"a", EAcute}}

\* Texts of the extended form that are not the encoding of a name: a name
\* with a percent sign left as it is.
RawValues ==
    {f \in Names : /\ \E i \in 1..Len(f) : f[i] = Percent
                   /\ \A i \in 1..Len(f) : f[i] \notin {Semicolon, Quote, " "}}

\* The names of at most one character, for the variants of a header.
ShortNames == StringsUpTo(NameChars, 1)

\* The Content-Disposition values of download responses: each form with
\* every name it can carry; and, for the short names, with a parameter
\* after it, with the markers in upper case, and with both forms together.
Dispositions ==
    {Disposition(NoParam, Ext(PercentEncode(f)), FALSE, FALSE) : f \in Names}
    \cup {Disposition(NoParam, Ext(v), extra, FALSE) :
              v \in RawValues, extra \in BOOLEAN}
    \cup {Disposition(Plain(f, TRUE), NoParam, FALSE, FALSE) :
              f \in QuotedNames}
    \cup {Disposition(Plain(f, FALSE), NoParam, FALSE, FALSE) :
              f \in TokenNames}
    \cup {Disposition(NoParam, Ext(PercentEncode(f)), extra, upper) :
              f \in ShortNames, extra \in BOOLEAN, upper \in BOOLEAN}
    \cup {Disposition(Plain(f, quoted), NoParam, extra, upper) :
              f \in ShortNames \cap TokenNames, quoted \in BOOLEAN,
              extra \in BOOLEAN, upper \in BOOLEAN}
    \cup {Disposition(Plain(<<"a">>, quoted), Ext(PercentEncode(f)),
                      extra, FALSE) :
              f \in ShortNames, quoted \in BOOLEAN, extra \in BOOLEAN}
    \cup {Disposition(NoParam, NoParam, extra, FALSE) : extra \in BOOLEAN}

\* `document_${documentId}.pdf`.
FallbackName(documentId) ==
    <<"document_">> \o NumToStr(documentId) \o <<".pdf">>

\* `policycheck_documents_${crawlSessionId ?? 'all'}.zip`, without a crawl
\* session.
ZipFallbackName == <<"policycheck_documents_all.zip">>

\* The documents downloaded.
DocumentIds == {12}

\* The documents the Library view shows, and the pages it asks for.
ViewDocumentIds == {12, 13}
Pages == {1, 2}

\* What link.click() raises when the save action cannot be started.
ClickException ==
    [hasResponse |-> FALSE, status |-> 0, data |-> NoData,
     code |-> "<click exception>", message |-> <<"click failed">>]

\* triggerBrowserDownload(blob, filename): the object URL is created and the
\* link attached; link.click() returns or throws; the statements after it
\* run when it returned.
TriggerBrowserDownload(filename, clickFails) ==
    [filename |-> filename, created |-> TRUE, attached |-> clickFails,
     clicked |-> ~clickFails, revoked |-> ~clickFails, threw |-> clickFails]

---------------------------------------------------------------------------
(* The ToastProvider component and the Library view.                       *)

DEFAULT_DURATION_MS == 5000

\* The values Math.random().toString(36).slice(2, 7) may take.
RandomSuffixes == {"k3x9a", "p0q7z"}

\* `${Date.now()}-${Math.random().toString(36).slice(2, 7)}`.
ToastId(t, rnd) == <<t, rnd>>

\* The ToastProvider before it is mounted: no toast is rendered, no timer
\* of it is pending.
Unmounted == [mounted |-> FALSE, toasts |-> <<>>, timers |-> {}]

\* removeToast(id): prev.filter((toast) => toast.id !== id).
RemoveToast(list, id) == SelectSeq(list, LAMBDA toast : toast.id # id)

\* showToast(message, type, durationMs) at time t: the toast is appended
\* and its removal is scheduled.
ShowToast(p, message, type, durationMs, t, rnd) ==
    LET id == ToastId(t, rnd)
    IN  [p EXCEPT !.toasts = Append(@, [id |-> id, message |-> message,
                                        type |-> type]),
                  !.timers = @ \cup {[id |-> id, due |-> t + durationMs]}]

\* The listener the ToastProvider subscribes, called with a toast; no
\* publisher of the application passes a durationMs.
ProviderCalled(p, toast, t, rnd) ==
    ShowToast(p, toast.message, toast.type, DEFAULT_DURATION_MS, t, rnd)

\* The provider after the publishToast calls pub of one step (at most one):
\* its listener ran if the walk reached it.
Delivered(p, pub, t, rnd) ==
    IF /\ p.mounted
       /\ pub # <<>>
       /\ \E i \in 1..Len(pub[1].called) :
              pub[1].called[i] = ProviderListener
    THEN ProviderCalled(p, pub[1].toast, t, rnd)
    ELSE p

\* No load was issued yet.
NoLoad == [id |-> 0, settled |-> FALSE, docs |-> <<>>, total |-> 0, pages |-> 1]

\* The Library view as it mounts: the initial values of its state; loads
\* and downloads are the requests of load and of the download handlers
\* awaiting their responses, latest is the history of the load issued last.
InitialLibrary ==
    [docs |-> <<>>, total |-> 0, pages |-> 1, loading |-> TRUE,
     downloadingDocId |-> Undefined, downloadingAll |-> FALSE,
     loads |-> {}, downloads |-> {}, latest |-> NoLoad]

\* The filters load passes to searchLibrary: page, and limit: 20.
LoadFilters(page) == Filters(Num(20), Num(page))

\* The continuation of load after searchLibrary settled for request r: the
\* result is shown when it resolved, and loading ends.
LoadSettled(lib, r, settled, result) ==
    IF r \notin lib.loads
    THEN lib
    ELSE LET shown == IF settled = "resolved"
                      THEN [lib EXCEPT !.docs = result.items,
                                       !.total = result.total,
                                       !.pages = result.pages]
                      ELSE lib
         IN  [shown EXCEPT
                 !.loading = FALSE,
                 !.loads = @ \ {r},
                 !.latest = IF r = @.id
                            THEN [@ EXCEPT !.settled = TRUE,
                                           !.docs = shown.docs,
                                           !.total = shown.total,
                                           !.pages = shown.pages]
                            ELSE @]

\* The toast a download handler publishes after its operation settled.
HandlerToasts(op, settled) ==
    IF settled # "resolved" THEN <<>>
    ELSE IF op = "downloadDocument" THEN <<PdfStartedToast>>
    ELSE <<ZipStartedToast>>

\* The finally block of a download handler whose request was r.
DownloadSettled(lib, r, op) ==
    IF r \notin lib.downloads
    THEN lib
    ELSE IF op = "downloadDocument"
    THEN [lib EXCEPT !.downloadingDocId = Undefined, !.downloads = @ \ {r}]
    ELSE [lib EXCEPT !.downloadingAll = FALSE, !.downloads = @ \ {r}]

\* The continuation of the view after its call c settled.
ViewSettled(lib, c, settled, result) ==
    IF c.op = "getDocuments"
    THEN LoadSettled(lib, c.id, settled, result)
    ELSE DownloadSettled(lib, c.id, c.op)

---------------------------------------------------------------------------
(* State.                                                                  *)

VARIABLES
    listeners,      \* toastBus: the listener Set, in insertion order
    unsubs,         \* handlers for which subscribeToasts returned a function
    lastToastKey,   \* client: key of the last error toast published
    lastToastAt,    \* client: Date.now() of that publication
    now,            \* Date.now()
    storage,        \* localStorage
    pathname,       \* window.location.pathname
    navPending,     \* window.location.href was assigned, not yet committed
    nextId,         \* requests dispatched so far
    inflight,       \* requests dispatched and not yet settled
    lastOp,         \* history: the last interceptor or bus call and its effects
    fails,          \* history: the generic failures handled in this document
    hist401,        \* history: the 401 failures handled in this document
    lastRequest,    \* history: the last request, as given and as sent
    calls,          \* documents API calls awaiting their response
    lastCall,       \* history: the last documents API call settled
    objectUrls,     \* object URLs created and not revoked
    contentDisposition, \* the Content-Disposition header of downloads
    provider,       \* ToastProvider: mounted, its toasts, its timers
    library,        \* Library: the view's state
    resubscribed    \* history: handlers subscribed again while followed

vars ==
    <<listeners, unsubs, lastToastKey, lastToastAt, now, storage, pathname,
      navPending, nextId, inflight, lastOp, fails, hist401, lastRequest,
      calls, lastCall, objectUrls, contentDisposition, provider, library,
      resubscribed>>

\* The state of the documents API and of the object URLs.
apiVars == <<calls, lastCall, objectUrls, contentDisposition>>

\* The state of the components.
uiVars == <<provider, library>>

\* A Content-Disposition header that may be missing from the response.
NoHeader ==
    [defined |-> FALSE, value |-> Disposition(NoParam, NoParam, FALSE, FALSE)]
Header(d) == [defined |-> TRUE, value |-> d]

\* String(response.headers?.['content-disposition'] ?? '').
HeaderString(h) == IF h.defined THEN Render(h.value) ELSE <<>>

Headers == {NoHeader} \cup {Header(d) : d \in Dispositions}

\* A response, as far as its callers read it: its body and its
\* Content-Disposition header.
Response(data, header) == [data |-> data, header |-> header]

\* Variant of OnFulfilled: a response without body and headers is returned.
OnFulfilledBare(response) == Response(NoBody, NoHeader)

\* The success handler of client.interceptors.response.use.
OnFulfilled(response) == response

\* No download was triggered.
NoDownload ==
    [filename |-> <<>>, created |-> FALSE, attached |-> FALSE,
     clicked |-> FALSE, revoked |-> FALSE, threw |-> FALSE]

\* A documents API call awaiting its response, with its request as sent.
Call(id, op, filters, documentId, sent) ==
    [id |-> id, op |-> op, filters |-> filters, documentId |-> documentId,
     sent |-> sent]

\* No documents API call was settled yet.
NoCall ==
    [op |-> "none", id |-> 0, filters |-> NoFilters, documentId |-> 0,
     data |-> NoBody, header |-> NoHeader, settled |-> "none",
     result |-> EMPTY_RESPONSE, error |-> NoError, download |-> NoDownload]

\* The calls awaiting the response of request r (one, or none).
CallsOf(r) == {c \in calls : c.id = r}

\* What the caller of a failed request does with the rejection: getDocuments
\* catches it, downloadDocument passes it on.
SettleFailure(c, rejectedWith) ==
    LET caught == GetDocumentsCatch(rejectedWith)
    IN  IF c.op = "getDocuments"
        THEN [NoCall EXCEPT !.op = c.op, !.id = c.id, !.filters = c.filters,
                            !.settled = caught.settled,
                            !.result = caught.result,
                            !.error = caught.error]
        ELSE [NoCall EXCEPT !.op = c.op, !.id = c.id,
                            !.documentId = c.documentId,
                            !.settled = "rejected",
                            !.error = rejectedWith]

NoOp ==
    [id |-> 0, kind |-> "none", error |-> NoError, pub |-> <<>>, removed |-> <<>>, nav |-> FALSE, rejectedWith |-> NoError]

Init ==
    /\ listeners = <<>>
    /\ unsubs = {}
    /\ lastToastKey = <<>>
    /\ lastToastAt = 0
    /\ now = 0
    /\ storage \in {StorageWith(S) : S \in SUBSET StorageKeys}
    /\ pathname \in Paths
    /\ navPending = FALSE
    /\ nextId = 0
    /\ inflight = {}
    /\ lastOp = NoOp
    /\ fails = <<>>
    /\ hist401 = <<>>
    /\ lastRequest = NoRequest
    /\ calls = {}
    /\ lastCall = NoCall
    /\ objectUrls = 0
    /\ contentDisposition \in Headers
    /\ provider = Unmounted
    /\ library = InitialLibrary
    /\ resubscribed = {}

---------------------------------------------------------------------------
(* Operations.                                                             *)

\* subscribeToasts(h), by any component.
Subscribe(h) ==
    /\ listeners' = SetAdd(listeners, h)
    /\ unsubs' = unsubs \cup {h}
    /\ UNCHANGED <<resubscribed, uiVars, lastToastKey, lastToastAt, now, storage, pathname,
                   navPending, nextId, inflight, lastOp, fails,
                   hist401, lastRequest, apiVars>>

\* subscribeToasts(h) for a handler it was called for before; that it was
\* passed again is kept in the history.
Resubscribe(h) ==
    /\ h \in unsubs
    /\ listeners' = SetAdd(listeners, h)
    /\ resubscribed' = resubscribed \cup {h}
    /\ UNCHANGED <<unsubs, lastToastKey, lastToastAt, now, storage, pathname,
                   navPending, nextId, inflight, lastOp, fails,
                   hist401, lastRequest, apiVars, uiVars>>

\* A function returned by subscribeToasts(h) is called.
Unsubscribe(h) ==
    /\ h \in unsubs
    /\ listeners' = SetDelete(listeners, h)
    /\ UNCHANGED <<resubscribed, uiVars, unsubs, lastToastKey, lastToastAt, now, storage, pathname,
                   navPending, nextId, inflight, lastOp, fails,
                   hist401, lastRequest, apiVars>>

\* publishToast called by a view (a download handler's success toast).
Publish ==
    LET p == PublishToast(listeners, PdfStartedToast)
    IN  /\ listeners' = p.after
        /\ unsubs' = unsubs \cup {p.after[i] : i \in 1..Len(p.after)}
        /\ lastOp' = [NoOp EXCEPT !.kind = "publish",
                                  !.pub = <<CallRecord(p)>>]
        /\ \E rnd \in RandomSuffixes :
               provider' = Delivered(provider, <<p>>, now, rnd)
        /\ UNCHANGED library
        /\ UNCHANGED <<resubscribed, lastToastKey, lastToastAt, now, storage, pathname,
                       navPending, nextId, inflight, fails, hist401,
                   lastRequest, apiVars>>

\* A request passes the request interceptor and is sent.
Send(config) ==
    /\ nextId < MaxRequests
    /\ Cardinality(inflight) < MaxInflight
    /\ nextId' = nextId + 1
    /\ inflight' = inflight \cup {nextId + 1}
    /\ lastRequest' = [config |-> config,
                       sent |-> RequestInterceptor(config, storage)]
    /\ UNCHANGED <<resubscribed, provider, listeners, unsubs, lastToastKey, lastToastAt, now, storage,
                   pathname, navPending, lastOp, fails, hist401>>

\* A request of a caller that is not followed further.
Dispatch(config) ==
    /\ Send(config)
    /\ UNCHANGED <<apiVars, library>>

\* documentsApi.getDocuments(filters) is called: its request is sent.
GetDocumentsCalled(filters) ==
    /\ Send(ListRequest)
    /\ calls' = calls \cup {Call(nextId + 1, "getDocuments", filters, 0,
                                 lastRequest'.sent)}
    /\ UNCHANGED <<lastCall, objectUrls, contentDisposition>>

\* getDocuments called by a caller that is not a view followed here.
GetDocuments(filters) ==
    /\ GetDocumentsCalled(filters)
    /\ UNCHANGED library

\* Library.load, run by the effect when the search text, the country or the
\* page changed: loading is shown and searchLibrary is called.
Load(page) ==
    /\ GetDocumentsCalled(LoadFilters(page))
    /\ library' = [library EXCEPT
                       !.loading = TRUE,
                       !.loads = @ \cup {nextId + 1},
                       !.latest = [NoLoad EXCEPT !.id = nextId + 1]]

\* The response interceptor's success handler passes the list response on,
\* and getDocuments returns.
GetDocumentsResolved(r, data) ==
    /\ r \in inflight
    /\ \E c \in CallsOf(r) :
           LET response == OnFulfilled(Response(data, NoHeader))
           IN  /\ c.op = "getDocuments"
               /\ lastCall' = [NoCall EXCEPT
                                  !.op = c.op, !.id = r,
                                  !.filters = c.filters,
                                  !.data = response.data,
                                  !.settled = "resolved",
                                  !.result = GetDocumentsResult(
                                                 IF response.data.present
                                                 THEN response.data
                                                 ELSE NoBody, c.filters)]
    /\ calls' = calls \ CallsOf(r)
    /\ inflight' = inflight \ {r}
    /\ lastOp' = [NoOp EXCEPT !.id = r, !.kind = "success"]
    /\ library' = LoadSettled(library, r, lastCall'.settled, lastCall'.result)
    /\ UNCHANGED <<resubscribed, provider, listeners, unsubs, lastToastKey, lastToastAt, now, storage,
                   pathname, navPending, nextId, fails, hist401, lastRequest,
                   objectUrls, contentDisposition>>

\* downloadDocument(documentId) is called: its request is sent.
DownloadDocumentCalled(documentId) ==
    /\ Send(DownloadRequest(documentId))
    /\ calls' = calls \cup
                    {Call(nextId + 1, "downloadDocument", NoFilters,
                          documentId, lastRequest'.sent)}
    /\ UNCHANGED <<lastCall, objectUrls, contentDisposition>>

\* downloadDocument called by a caller that is not a view followed here.
DownloadDocument(documentId) ==
    /\ DownloadDocumentCalled(documentId)
    /\ UNCHANGED library

\* Library.handleDownload(documentId), from the button of a document shown
\* (disabled while downloadingDocId is that document).
HandleDownload(documentId) ==
    /\ \E i \in 1..Len(library.docs) : library.docs[i] = documentId
    /\ library.downloadingDocId # Num(documentId)
    /\ DownloadDocumentCalled(documentId)
    /\ library' = [library EXCEPT
                       !.downloadingDocId = Num(documentId),
                       !.downloads = @ \cup {nextId + 1}]

\* Library.handleDownloadAll, from its button (disabled while downloadingAll
\* and while total is 0): downloadAllDocuments() sends its request.
HandleDownloadAll ==
    /\ ~library.downloadingAll
    /\ library.total # 0
    /\ Send(DownloadAllRequest)
    /\ calls' = calls \cup
                    {Call(nextId + 1, "downloadAllDocuments", NoFilters, 0,
                          lastRequest'.sent)}
    /\ library' = [library EXCEPT
                       !.downloadingAll = TRUE,
                       !.downloads = @ \cup {nextId + 1}]
    /\ UNCHANGED <<lastCall, objectUrls, contentDisposition>>

\* The response interceptor's success handler passes the download response
\* on, with the header the server composes; downloadDocument or
\* downloadAllDocuments names the file and triggers the browser's save; a
\* download handler of the view that called it publishes its toast and
\* resets its marker.
DownloadResolved(r, clickFails) ==
    /\ r \in inflight
    /\ \E c \in CallsOf(r) :
           LET response == OnFulfilled(Response(NoBody, contentDisposition))
               header == response.header
               filename == ExtractFilename(HeaderString(header),
                                           IF c.op = "downloadDocument"
                                           THEN FallbackName(c.documentId)
                                           ELSE ZipFallbackName)
               t == TriggerBrowserDownload(filename, clickFails)
               settled == IF t.threw THEN "rejected" ELSE "resolved"
               own == IF r \in library.downloads
                      THEN HandlerToasts(c.op, settled) ELSE <<>>
               p == PublishToast(listeners, IF own = <<>> THEN PdfStartedToast
                                            ELSE own[1])
           IN  /\ c.op \in {"downloadDocument", "downloadAllDocuments"}
               /\ lastCall' = [NoCall EXCEPT
                                  !.op = c.op, !.id = r,
                                  !.documentId = c.documentId,
                                  !.header = header,
                                  !.settled = settled,
                                  !.error = IF t.threw THEN ClickException
                                            ELSE NoError,
                                  !.download = t]
               /\ objectUrls' = IF t.created /\ ~t.revoked
                                THEN objectUrls + 1 ELSE objectUrls
               /\ library' = DownloadSettled(library, r, c.op)
               /\ IF own = <<>>
                  THEN /\ lastOp' = [NoOp EXCEPT !.id = r, !.kind = "success"]
                       /\ UNCHANGED <<listeners, unsubs, provider>>
                  ELSE /\ lastOp' = [NoOp EXCEPT !.id = r, !.kind = "success",
                                                 !.pub = <<CallRecord(p)>>]
                       /\ listeners' = p.after
                       /\ unsubs' = unsubs \cup
                                        {p.after[i] : i \in 1..Len(p.after)}
                       /\ \E rnd \in RandomSuffixes :
                              provider' = Delivered(provider, <<p>>, now, rnd)
    /\ calls' = calls \ CallsOf(r)
    /\ inflight' = inflight \ {r}
    /\ UNCHANGED <<resubscribed, lastToastKey, lastToastAt, now, storage,
                   pathname, navPending, nextId, fails, hist401, lastRequest,
                   contentDisposition>>

\* The response interceptor's success handler, for a request whose caller
\* is not followed.
ResponseSuccess(r) ==
    /\ r \in inflight
    /\ CallsOf(r) = {}
    /\ inflight' = inflight \ {r}
    /\ lastOp' = [NoOp EXCEPT !.id = r, !.kind = "success"]
    /\ UNCHANGED <<resubscribed, uiVars, listeners, unsubs, lastToastKey, lastToastAt, now, storage,
                   pathname, navPending, nextId, fails, hist401,
                   lastRequest, apiVars>>

\* The response interceptor's failure handler, run to completion, and the
\* caller's continuation on the rejected promise.
ResponseError(r, error) ==
    LET o == OnRejected(error, listeners, lastToastKey, lastToastAt, now,
                        storage, pathname)
    IN  /\ r \in inflight
        /\ inflight' = inflight \ {r}
        /\ listeners' = o.ls
        /\ unsubs' = unsubs \cup {o.ls[i] : i \in 1..Len(o.ls)}
        /\ lastToastKey' = o.lastKey
        /\ lastToastAt' = o.lastAt
        /\ storage' = o.store
        /\ navPending' = (navPending \/ o.nav)
        /\ lastOp' = [id |-> r, kind |-> "error", error |-> error,
                      pub |-> [i \in 1..Len(o.pub) |-> CallRecord(o.pub[i])],
                      removed |-> o.removed,
                      nav |-> o.nav, rejectedWith |-> o.rejectedWith]
        /\ fails' = IF ~IsUnauthorized(error) /\ ~IsCanceled(error)
                    THEN Append(fails, [pair |-> StatusAndMessage(error),
                                        at |-> now,
                                        delivered |-> o.pub # <<>>])
                    ELSE fails
        /\ hist401' = IF IsUnauthorized(error)
                      THEN Append(hist401,
                                  [id |-> r, peers |-> inflight \ {r},
                                   nav |-> o.nav,
                                   cleared |-> \A k \in StorageKeys :
                                                   o.store[k] = Absent])
                      ELSE hist401
        /\ calls' = calls \ CallsOf(r)
        /\ lastCall' = IF CallsOf(r) = {} THEN lastCall
                       ELSE SettleFailure(CHOOSE c \in CallsOf(r) : TRUE,
                                          o.rejectedWith)
        /\ \E rnd \in RandomSuffixes :
               provider' = Delivered(provider, o.pub, now, rnd)
        /\ library' = IF CallsOf(r) = {} THEN library
                       ELSE ViewSettled(library,
                                        CHOOSE c \in CallsOf(r) : TRUE,
                                        lastCall'.settled, lastCall'.result)
        /\ UNCHANGED <<resubscribed, now, pathname, nextId, lastRequest, objectUrls,
                       contentDisposition>>

\* Time passes: ms milliseconds.
Elapse(ms) ==
    /\ now < MaxTicks * TickMs
    /\ now' = now + ms
    /\ UNCHANGED <<resubscribed, uiVars, listeners, unsubs, lastToastKey, lastToastAt, storage,
                   pathname, navPending, nextId, inflight, lastOp,
                   fails, hist401,
                   lastRequest, apiVars>>

\* Time passes.
Tick == Elapse(TickMs)

\* The ToastProvider mounts: its effect subscribes its listener.
MountProvider ==
    /\ ~provider.mounted
    /\ provider' = [Unmounted EXCEPT !.mounted = TRUE]
    /\ listeners' = SetAdd(listeners, ProviderListener)
    /\ unsubs' = unsubs \cup {ProviderListener}
    /\ UNCHANGED <<resubscribed, lastToastKey, lastToastAt, now, storage, pathname,
                   navPending, nextId, inflight, lastOp, fails,
                   hist401, lastRequest, apiVars, library>>

\* The ToastProvider unmounts: the effect's cleanup unsubscribes its
\* listener; the timers left behind act on a component that is gone.
UnmountProvider ==
    /\ provider.mounted
    /\ provider' = Unmounted
    /\ listeners' = SetDelete(listeners, ProviderListener)
    /\ UNCHANGED <<resubscribed, unsubs, lastToastKey, lastToastAt, now, storage, pathname,
                   navPending, nextId, inflight, lastOp, fails,
                   hist401, lastRequest, apiVars, library>>

\* A timer set by showToast fires, at its due time or later.
TimerFires(timer) ==
    /\ timer \in provider.timers
    /\ now >= timer.due
    /\ provider' = [provider EXCEPT
                        !.toasts = RemoveToast(@, timer.id),
                        !.timers = @ \ {timer}]
    /\ UNCHANGED <<resubscribed, listeners, unsubs, lastToastKey, lastToastAt, now, storage,
                   pathname, navPending, nextId, inflight, lastOp, fails,
                   hist401, lastRequest, apiVars, library>>

\* The router changes the location inside the running document.
Navigate(p) ==
    /\ ~navPending
    /\ p # pathname
    /\ pathname' = p
    /\ UNCHANGED <<resubscribed, uiVars, listeners, unsubs, lastToastKey, lastToastAt, now, storage,
                   navPending, nextId, inflight, lastOp, fails,
                   hist401, lastRequest, apiVars>>

\* The navigation started by assigning window.location.href commits: the
\* login page loads as a new document, with fresh module state; requests of
\* the old document are dropped with it.
NavigationCommit ==
    /\ navPending
    /\ navPending' = FALSE
    /\ pathname' = LoginPath
    /\ listeners' = <<>>
    /\ unsubs' = {}
    /\ lastToastKey' = <<>>
    /\ lastToastAt' = 0
    /\ inflight' = {}
    /\ fails' = <<>>
    /\ hist401' = <<>>
    /\ lastRequest' = NoRequest
    /\ calls' = {}
    /\ objectUrls' = 0
    /\ provider' = Unmounted
    /\ library' = InitialLibrary
    /\ resubscribed' = {}
    /\ UNCHANGED <<now, storage, nextId, lastOp, lastCall,
                   contentDisposition>>

\* The login page stores fresh credentials.
StoreCredentials ==
    /\ StartsWith(pathname, LoginPath)
    /\ \E k \in StorageKeys : storage[k] = Absent
    /\ storage' = StorageWith(StorageKeys)
    /\ UNCHANGED <<resubscribed, uiVars, listeners, unsubs, lastToastKey, lastToastAt, now,
                   pathname, navPending, nextId, inflight, lastOp,
                   fails, hist401,
                   lastRequest, apiVars>>

Next ==
    \/ \E h \in Handlers : Subscribe(h)
    \/ \E h \in Handlers : Resubscribe(h)
    \/ \E h \in Handlers : Unsubscribe(h)
    \/ Publish
    \/ \E config \in RequestConfigs : Dispatch(config)
    \/ \E filters \in ListFilters : GetDocuments(filters)
    \/ \E r \in RequestIds, data \in ListBodies : GetDocumentsResolved(r, data)
    \/ \E documentId \in DocumentIds : DownloadDocument(documentId)
    \/ \E r \in RequestIds, clickFails \in BOOLEAN :
           DownloadResolved(r, clickFails)
    \/ \E r \in RequestIds : ResponseSuccess(r)
    \/ \E r \in RequestIds, error \in Errors : ResponseError(r, error)
    \/ Tick
    \/ MountProvider
    \/ UnmountProvider
    \/ \E timer \in provider.timers : TimerFires(timer)
    \/ \E page \in Pages : Load(page)
    \/ \E documentId \in ViewDocumentIds : HandleDownload(documentId)
    \/ HandleDownloadAll
    \/ \E p \in Paths : Navigate(p)
    \/ NavigationCommit
    \/ StoreCredentials

\* The whole client layer.  Its parts below follow one mechanism each, with
\* the operations that touch that mechanism's state.
Spec == Init /\ [][Next]_vars

\* A signed-in user on a page of the application.
InitSignedIn ==
    /\ Init
    /\ storage = StorageWith(StorageKeys)
    /\ pathname = <<"/", "l", "i", "b">>
    /\ contentDisposition = NoHeader

\* Any credentials, anywhere in the application.
InitAnywhere == Init /\ contentDisposition = NoHeader

\* A signed-in user whose downloads the server answers with one of the
\* Content-Disposition headers.
InitDownload ==
    /\ Init
    /\ storage = StorageWith(StorageKeys)
    /\ pathname = <<"/", "l", "i", "b">>

\* The toast bus and its producers and subscribers.
NextBus ==
    \/ \E h \in Handlers : Subscribe(h)
    \/ \E h \in Handlers : Unsubscribe(h)
    \/ Publish

SpecBus == InitSignedIn /\ [][NextBus]_vars

\* The subscribers while the session guard is followed: the ToastProvider's
\* listener and a listener that throws.
RequestHandlers == {ProviderListener, FailingListener}

DedupErrors == GenericErrors \cup {CanceledError}

\* The subscriber while the deduplicator is followed: none, or a listener
\* that throws out of the publishToast call that follows the state update.
DedupHandlers == {FailingListener}

\* Requests failing over time: the deduplicator and the failure classes.
NextDedup ==
    \/ \E h \in DedupHandlers : Subscribe(h)
    \/ Dispatch(ListRequest)
    \/ \E r \in RequestIds : ResponseSuccess(r)
    \/ \E r \in RequestIds, error \in DedupErrors :
           ResponseError(r, error)
    \/ Tick

SpecDedup == InitSignedIn /\ [][NextDedup]_vars

SessionErrors == UnauthorizedErrors \cup {NetworkError, CanceledError}

\* Requests failing at one instant, anywhere in the application: the
\* session guard, the credential store and the location.
NextSession ==
    \/ \E h \in RequestHandlers : Subscribe(h)
    \/ Dispatch(ListRequest)
    \/ \E r \in RequestIds : ResponseSuccess(r)
    \/ \E r \in RequestIds, error \in SessionErrors :
           ResponseError(r, error)
    \/ \E p \in Paths : Navigate(p)
    \/ NavigationCommit
    \/ StoreCredentials

SpecSession == InitAnywhere /\ [][NextSession]_vars

\* Requests of every method passing the request interceptor, with the
\* credentials stored, wiped by a 401 and stored again.
NextRequest ==
    \/ \E config \in RequestConfigs : Dispatch(config)
    \/ \E r \in RequestIds : ResponseSuccess(r)
    \/ \E r \in RequestIds, error \in UnauthorizedErrors :
           ResponseError(r, error)
    \/ StoreCredentials

SpecRequest == InitAnywhere /\ [][NextRequest]_vars

\* getDocuments over its filters and the bodies of successful responses.
NextList ==
    \/ \E filters \in ListFilters : GetDocuments(filters)
    \/ \E r \in RequestIds, data \in ListBodies :
           GetDocumentsResolved(r, data)

SpecList == InitSignedIn /\ [][NextList]_vars

ListErrors ==
    UnauthorizedErrors
        \cup {HttpError(500, DetailData(Boom)), NetworkError, CanceledError}

\* getDocuments over the failures of its request, with the listeners of the
\* failure notifications.
NextListFailure ==
    \/ \E h \in RequestHandlers : Subscribe(h)
    \/ GetDocuments(NoFilters)
    \/ \E r \in RequestIds : GetDocumentsResolved(r, EmptyLibraryBody)
    \/ \E r \in RequestIds, error \in ListErrors : ResponseError(r, error)

SpecListFailure == InitSignedIn /\ [][NextListFailure]_vars

\* downloadDocument with a save action that starts or fails.
NextDownload ==
    \/ \E documentId \in DocumentIds : DownloadDocument(documentId)
    \/ \E r \in RequestIds, clickFails \in BOOLEAN :
           DownloadResolved(r, clickFails)

SpecDownload == InitDownload /\ [][NextDownload]_vars

\* The failure handler over the shapes of a failure, for the first two
\* failures of a document.
NextMessage ==
    \/ Dispatch(ListRequest)
    \/ \E r \in RequestIds, error \in MessageErrors :
           Len(fails) < 2 /\ ResponseError(r, error)

SpecMessage == InitSignedIn /\ [][NextMessage]_vars

\* The headers of the downloads while the success handler is followed.
SuccessHeaders == {NoHeader, Header(RoundTrip(<<"a">>))}

\* A signed-in user, with downloads answered with or without a header.
InitSuccess == InitDownload /\ contentDisposition \in SuccessHeaders

\* Requests answered with success, between failures that publish toasts
\* and set the deduplicator.
NextSuccess ==
    \/ Subscribe(ProviderListener)
    \/ Dispatch(ListRequest)
    \/ \E documentId \in DocumentIds : DownloadDocument(documentId)
    \/ \E r \in RequestIds : DownloadResolved(r, FALSE)
    \/ \E r \in RequestIds : ResponseSuccess(r)
    \/ \E r \in RequestIds : ResponseError(r, NetworkError)
    \/ Tick

SpecSuccess == InitSuccess /\ [][NextSuccess]_vars

\* The ToastProvider: mounted before or after a listener that throws, the
\* toasts of views and of failed requests, and the timers.
NextToasts ==
    \/ MountProvider
    \/ UnmountProvider
    \/ Subscribe(FailingListener)
    \/ (Len(provider.toasts) < MaxToasts /\ Publish)
    \/ Dispatch(ListRequest)
    \/ \E r \in RequestIds : ResponseError(r, NetworkError)
    \/ Elapse(ToastTickMs)
    \/ \E timer \in provider.timers : TimerFires(timer)

SpecToasts == InitSignedIn /\ [][NextToasts]_vars

\* A 401 response is handled.
SessionExpired == HttpError(UNAUTHORIZED, NoData)

\* The requests of the credentials scenario: one that does not mutate and
\* one that does.
CredentialRequests ==
    {ListRequest, Request(Method(<<"p", "o", "s", "t">>), <<"/api/x">>)}

\* The credentials: requests sent with what is stored, a 401 handled with
\* listeners that return or throw while other requests are in flight, the
\* login page loading and storing credentials again.
NextCredentials ==
    \/ \E h \in RequestHandlers : Subscribe(h)
    \/ \E config \in CredentialRequests : Dispatch(config)
    \/ GetDocuments(NoFilters)
    \/ \E r \in RequestIds : GetDocumentsResolved(r, EmptyLibraryBody)
    \/ \E r \in RequestIds : ResponseSuccess(r)
    \/ \E r \in RequestIds : ResponseError(r, SessionExpired)
    \/ NavigationCommit
    \/ StoreCredentials

SpecCredentials == InitAnywhere /\ [][NextCredentials]_vars

\* The failures of the warning scenario: a 401, and two generic failures
\* with different messages.
WarningErrors ==
    {SessionExpired, NetworkError, HttpError(500, StringData(Boom))}

\* The session warning next to the deduplicator: 401 failures and generic
\* failures handled in any order, at one instant and over time, with
\* listeners that return or throw.
NextWarning ==
    \/ \E h \in RequestHandlers : Subscribe(h)
    \/ Dispatch(ListRequest)
    \/ \E r \in RequestIds, error \in WarningErrors : ResponseError(r, error)
    \/ Tick

SpecWarning == InitSignedIn /\ [][NextWarning]_vars

\* The pages of a library of 21 documents, as the server answers a load,
\* and a library of two documents.
ViewBodies ==
    { ListBody(<<12>>, Num(21), Num(20)),
      ListBody(<<13>>, Num(21), Num(20)),
      ListBody(<<12, 13>>, Num(2), Num(20)) }

\* The Library view: loads issued while earlier ones are awaited, answered
\* in any order or failing; downloads of the documents shown and of all of
\* them, resolving, failing at the click or failing on the network, with
\* listeners that return or throw.
NextLibrary ==
    \/ \E h \in RequestHandlers : Subscribe(h)
    \/ \E page \in Pages : Load(page)
    \/ \E r \in RequestIds, data \in ViewBodies : GetDocumentsResolved(r, data)
    \/ \E documentId \in ViewDocumentIds : HandleDownload(documentId)
    \/ HandleDownloadAll
    \/ \E r \in RequestIds, clickFails \in BOOLEAN :
           DownloadResolved(r, clickFails)
    \/ \E r \in RequestIds : ResponseError(r, NetworkError)

SpecLibrary == InitSignedIn /\ [][NextLibrary]_vars

\* The handlers of the scenario of repeated subscriptions.
RepeatHandlers == {ProviderListener, FailingListener, LateListener}

\* Handlers subscribed once or again, unsubscribed by any of the functions
\* returned, and notifications published to them.
NextRepeat ==
    \/ \E h \in RepeatHandlers : Subscribe(h)
    \/ \E h \in RepeatHandlers : Resubscribe(h)
    \/ \E h \in RepeatHandlers : Unsubscribe(h)
    \/ Publish

SpecRepeat == InitSignedIn /\ [][NextRepeat]_vars

---------------------------------------------------------------------------
(* Properties of the deduplicator, over the generic failures handled.      *)

Window == ERROR_TOAST_DEDUP_WINDOW_MS

\* Failures i..j all have the (status, message) pair of failure i.
SamePairRun(i, j) == \A m \in i..j : fails[m].pair = fails[i].pair

\* C1, as claimed: in a run of failures with one (status, message) pair, each
\* less than 3000 ms after the one before it, only the first is published;
\* and a failure more than 3000 ms after the one before it is published.
C1_BurstOnce_Original ==
    /\ \A i, j \in 1..Len(fails) :
           ( /\ i < j
             /\ SamePairRun(i, j)
             /\ fails[i].delivered
             /\ \A m \in (i + 1)..j : fails[m].at - fails[m - 1].at < Window )
           => \A m \in (i + 1)..j : ~fails[m].delivered
    /\ \A j \in 2..Len(fails) :
           ( /\ fails[j].pair = fails[j - 1].pair
             /\ fails[j].at - fails[j - 1].at > Window )
           => fails[j].delivered

\* C1, amended: in a run of failures with one (status, message) pair, the
\* first of the run is published, and a later one is published exactly when
\* it comes 3000 ms or more after the last published one of the run; so the
\* failures less than 3000 ms after a published one add no notification, and
\* a failure more than 3000 ms after the one before it is published.
C1_BurstOnce ==
    /\ \A i \in 1..Len(fails) :
           (i = 1 \/ fails[i - 1].pair # fails[i].pair) => fails[i].delivered
    /\ \A i, j \in 1..Len(fails) :
           ( /\ i < j
             /\ SamePairRun(i, j)
             /\ fails[i].delivered
             /\ \A m \in (i + 1)..(j - 1) : ~fails[m].delivered )
           => (fails[j].delivered <=> fails[j].at - fails[i].at >= Window)
    /\ \A j \in 2..Len(fails) :
           ( /\ fails[j].pair = fails[j - 1].pair
             /\ fails[j].at - fails[j - 1].at > Window )
           => fails[j].delivered

\* Three failures with one pair: published, dropped inside the window, and
\* published again less than 3000 ms after the dropped one.
C1_Witness ==
    /\ Len(fails) >= 3
    /\ SamePairRun(1, 3)
    /\ fails[1].delivered /\ ~fails[2].delivered /\ fails[3].delivered
    /\ fails[2].at > fails[1].at
    /\ fails[3].at - fails[2].at < Window

\* C4, as claimed: two failures with the same pair less than 3000 ms apart
\* never both publish a banner, whatever is handled between them.
C4_OnePerWindow_Original ==
    \A i, j \in 1..Len(fails) :
        ( /\ i < j
          /\ fails[i].pair = fails[j].pair
          /\ fails[j].at - fails[i].at < Window )
        => ~(fails[i].delivered /\ fails[j].delivered)

\* C4, amended: two banners for the same pair less than 3000 ms apart are
\* published only when a failure with another pair was handled between them;
\* and every failure has a banner for its own pair published less than
\* 3000 ms before it or by itself.
C4_OnePerWindow ==
    /\ \A i, j \in 1..Len(fails) :
           ( /\ i < j
             /\ fails[i].pair = fails[j].pair
             /\ fails[j].at - fails[i].at < Window
             /\ fails[i].delivered /\ fails[j].delivered )
           => \E m \in (i + 1)..(j - 1) : fails[m].pair # fails[i].pair
    /\ \A j \in 1..Len(fails) :
           \E i \in 1..j :
               /\ fails[i].pair = fails[j].pair
               /\ fails[i].delivered
               /\ fails[j].at - fails[i].at < Window

\* A second banner for a pair inside its window, after a failure with
\* another pair.
C4_Witness ==
    /\ Len(fails) >= 3
    /\ fails[1].pair = fails[3].pair
    /\ fails[2].pair # fails[1].pair
    /\ fails[1].delivered /\ fails[3].delivered
    /\ fails[3].at - fails[1].at < Window

\* C5, as claimed: of two failures with distinct pairs handled one after the
\* other, both are published.
C5_DistinctBoth_Original ==
    \A i \in 1..(Len(fails) - 1) :
        fails[i].pair # fails[i + 1].pair
        => (fails[i].delivered /\ fails[i + 1].delivered)

\* C5, amended: of two failures with distinct pairs handled one after the
\* other, the second is published; the first is published unless it repeats
\* the pair of the last published notification less than 3000 ms after it.
C5_DistinctBoth ==
    \A i \in 1..(Len(fails) - 1) :
        fails[i].pair # fails[i + 1].pair
        => /\ fails[i + 1].delivered
           /\ \/ fails[i].delivered
              \/ \E m \in 1..(i - 1) :
                     /\ SamePairRun(m, i)
                     /\ fails[m].delivered
                     /\ \A n \in (m + 1)..i : ~fails[n].delivered
                     /\ fails[i].at - fails[m].at < Window

\* Two failures with distinct pairs at the same instant, the first of them
\* dropped as a repetition, the second published.
C5_Witness ==
    /\ Len(fails) >= 3
    /\ fails[2].pair # fails[3].pair
    /\ fails[2].at = fails[3].at
    /\ ~fails[2].delivered
    /\ fails[3].delivered

\* The step in which the response interceptor handled a failure.
HandledFailure == lastOp'.id # lastOp.id /\ lastOp'.kind = "error"

\* C6: handling a canceled failure calls publishToast for no listener and
\* leaves the deduplicator's key and timestamp as they were.
C6_CanceledSilent ==
    [][(HandledFailure /\ lastOp'.error.code = "ERR_CANCELED")
        => /\ lastOp'.pub = <<>>
           /\ lastToastKey' = lastToastKey
           /\ lastToastAt' = lastToastAt
           /\ listeners' = listeners]_vars

\* A canceled failure handled inside the window of a published error toast,
\* with a listener subscribed.
C6_Witness ==
    /\ lastOp.kind = "error"
    /\ lastOp.error = CanceledError
    /\ lastToastKey # <<>>
    /\ now - lastToastAt < Window
    /\ listeners # <<>>

---------------------------------------------------------------------------
(* Properties of the session guard and of the failure handler.             *)

Handled401 == lastOp.kind = "error" /\ IsUnauthorized(lastOp.error)

\* C2: a handled 401 removes each of the three keys exactly once, whatever
\* the listeners do, and assigns the login location only when the path does
\* not start with /login.
C2_ClearsAndRedirects ==
    [][(HandledFailure /\ IsUnauthorized(lastOp'.error))
        => /\ \A k \in StorageKeys :
                  Cardinality({i \in 1..Len(lastOp'.removed) :
                                   lastOp'.removed[i] = k}) = 1
           /\ \A k \in StorageKeys : storage'[k] = Absent
           /\ lastOp'.nav => ~StartsWith(pathname, LoginPath)]_vars

\* C3: of two 401 failures whose requests were in flight together, the later
\* handler leaves the keys cleared and at most one of the two assigns the
\* login location.
C3_ConcurrentOnce ==
    \A i, j \in 1..Len(hist401) :
        (i < j /\ hist401[j].id \in hist401[i].peers)
        => /\ hist401[j].cleared
           /\ ~(hist401[i].nav /\ hist401[j].nav)

\* C7: the failure handler rejects with the error it was given.
C7_RejectsOriginal ==
    lastOp.kind = "error" => lastOp.rejectedWith = lastOp.error

\* The session-expiry warning was handed to publishToast, once.
WarningPublished(op) ==
    Len(op.pub) = 1 /\ op.pub[1].toast = SessionExpiredToast

---------------------------------------------------------------------------
(* Properties of the toast bus.                                            *)

\* The entries of sequence s that are in set S, in order.
Restrict(s, S) == SelectSeq(s, LAMBDA x : x \in S)

Range(s) == {s[i] : i \in 1..Len(s)}

\* C9: a publishToast call invokes every handler registered when it starts,
\* once each, in registration order.
C9_AllInOrder ==
    \A i \in 1..Len(lastOp.pub) :
        Restrict(lastOp.pub[i].called, Range(lastOp.pub[i].before))
            = lastOp.pub[i].before

\* C10: no publishToast call throws.
C10_NeverThrows ==
    \A i \in 1..Len(lastOp.pub) : ~lastOp.pub[i].threw

\* C11, violated by the code: every handler a publishToast call invokes was
\* registered when the call started (a handler subscribed from inside
\* another handler during the call does not receive that notification).
C11_SnapshotReceivers ==
    \A i \in 1..Len(lastOp.pub) :
        Range(lastOp.pub[i].called) \subseteq Range(lastOp.pub[i].before)

\* The listeners removing the handler h and keeping the others in order
\* without error (Set.prototype.delete never throws).
Without(ls, h) == Restrict(ls, Range(ls) \ {h})

\* C12: calling the function returned by subscribeToasts(h) removes h and
\* leaves every other handler registered, in order; a call when h is no
\* longer registered changes nothing; and a publishToast call invokes only
\* handlers registered when it starts or subscribed during it, so h, once
\* removed, receives nothing until it is subscribed again.
C12_UnsubscribeExact ==
    [][ /\ \A h \in Handlers :
               Unsubscribe(h)
               => /\ listeners' = Without(listeners, h)
                  /\ h \notin Range(listeners')
                  /\ h \notin Range(listeners) => UNCHANGED vars
        /\ \A i \in 1..Len(lastOp'.pub) :
               lastOp' # lastOp
               => Range(lastOp'.pub[i].called)
                      \subseteq Range(listeners) \cup Range(listeners') ]_vars

\* The provider's listener is unsubscribed with two others registered, and
\* a notification published to those two reached them and not the provider.
C12_Witness ==
    /\ ProviderListener \in unsubs
    /\ ProviderListener \notin Range(listeners)
    /\ lastOp.kind = "publish"
    /\ lastOp.pub[1].before = <<LateListener, FailingListener>>
    /\ lastOp.pub[1].called = <<LateListener, FailingListener>>
    /\ listeners = <<LateListener, FailingListener>>

\* The step in which the failure handler passed a failure on to
\* publishErrorToast.
HandledGeneric ==
    /\ HandledFailure
    /\ ~IsUnauthorized(lastOp'.error)
    /\ lastOp'.error.code # "ERR_CANCELED"

\* C13: a failure handed to the deduplicator is suppressed exactly when its
\* key equals lastToastKey and now - lastToastAt < 3000 (at exactly 3000 ms
\* it is delivered); a delivered failure leaves (lastToastKey, lastToastAt)
\* at (key, now), also when the publishToast call that follows throws; a
\* suppressed one leaves both as they were.
C13_SuppressIff ==
    [][HandledGeneric
        => LET key == ToastKey(lastOp'.error,
                               ExtractErrorMessage(lastOp'.error))
               suppressed == /\ key = lastToastKey
                             /\ now - lastToastAt < Window
           IN  /\ (lastOp'.pub = <<>>) <=> suppressed
               /\ suppressed => /\ lastToastKey' = lastToastKey
                                /\ lastToastAt' = lastToastAt
               /\ ~suppressed => /\ lastToastKey' = key
                                 /\ lastToastAt' = now
                                 /\ Len(lastOp'.pub) = 1
                                 /\ lastOp'.pub[1].toast.message
                                        = ExtractErrorMessage(lastOp'.error)
      ]_vars

\* A failure delivered, its repetition 1500 ms later suppressed, and its
\* repetition at exactly 3000 ms after the delivery delivered, with a
\* listener that throws out of publishToast.
C13_Witness ==
    /\ Len(fails) >= 3
    /\ SamePairRun(1, 3)
    /\ fails[1].delivered /\ ~fails[2].delivered /\ fails[3].delivered
    /\ fails[2].at > fails[1].at
    /\ fails[3].at - fails[1].at = Window
    /\ lastToastAt = fails[3].at
    /\ listeners = <<FailingListener>>
    /\ lastOp.kind = "error" /\ Len(lastOp.pub) = 1 /\ lastOp.pub[1].threw

---------------------------------------------------------------------------
(* Properties of the request interceptor.                                  *)

\* The values a header set carries under a name.
HeaderValues(headers, name) == {p[2] : p \in {q \in headers : q[1] = name}}

\* The method of a request is a mutating one: upper-cased, GET when none is
\* given, it is POST, PUT, PATCH or DELETE.
IsMutating(config) ==
    /\ config.method.defined
    /\ ToUpperCase(config.method.str)
           \in { <<"P", "O", "S", "T">>, <<"P", "U", "T">>,
                 <<"P", "A", "T", "C", "H">>,
                 <<"D", "E", "L", "E", "T", "E">> }

\* C14: the request sent carries Authorization 'Bearer <access token>' when
\* an access token is stored and the caller's own Authorization otherwise;
\* it carries the stored CSRF token as x-csrf-token when the method is a
\* mutating one and a CSRF token is stored, and no such header otherwise;
\* every other header, the method and the URL are as the caller gave them,
\* and localStorage is as it was.
C14_RequestHeaders ==
    [][nextId' # nextId
        => LET given == lastRequest'.config
               sent == lastRequest'.sent
               token == storage["access_token"]
               csrfToken == storage["csrf_token"]
           IN  /\ HeaderValues(sent.headers, "Authorization")
                    = IF token # Absent
                      THEN {<<"Bearer ", token>>}
                      ELSE HeaderValues(given.headers, "Authorization")
               /\ HeaderValues(sent.headers, "x-csrf-token")
                    = IF IsMutating(given) /\ csrfToken # Absent
                      THEN {<<csrfToken>>}
                      ELSE {}
               /\ {p \in sent.headers :
                       p[1] \notin {"Authorization", "x-csrf-token"}}
                    = {p \in given.headers :
                           p[1] \notin {"Authorization", "x-csrf-token"}}
               /\ sent.method = given.method
               /\ sent.url = given.url
               /\ storage' = storage
      ]_vars

\* A post request, its method in lower case, sent with both tokens stored:
\* it carries the bearer token and the CSRF token.
C14_Witness ==
    /\ lastRequest.config.method = Method(<<"p", "o", "s", "t">>)
    /\ storage["access_token"] = StoredValue("access_token")
    /\ <<"Authorization", <<"Bearer ", StoredValue("access_token")>>>>
           \in lastRequest.sent.headers
    /\ <<"x-csrf-token", <<StoredValue("csrf_token")>>>>
           \in lastRequest.sent.headers
    /\ <<"Content-Type", <<"application/json">>>> \in lastRequest.sent.headers

---------------------------------------------------------------------------
(* Properties of documentsApi.getDocuments.                                *)

\* The last getDocuments call returned for a successful response.
ListSucceeded ==
    /\ lastCall.op = "getDocuments"
    /\ lastOp.kind = "success"
    /\ lastOp.id = lastCall.id

\* The total of a list response, 0 when it gives none.
TotalOf(data) == IF data.total.defined THEN data.total.n ELSE 0

\* The limit of a list call: from the response, else from the filter,
\* else 20.
LimitOf(data, filters) ==
    IF data.limit.defined /\ data.limit.n # 0 THEN data.limit.n
    ELSE IF filters.limit.defined /\ filters.limit.n # 0 THEN filters.limit.n
    ELSE 20

\* pages is the ceiling of total / limit, and 1 for a total of 0.
PagesAreCeiling(data, filters, result) ==
    LET total == TotalOf(data)
        limit == LimitOf(data, filters)
    IN  /\ result.total = total
        /\ result.page_size = limit
        /\ result.pages >= 1
        /\ total = 0 => result.pages = 1
        /\ total > 0 => /\ (result.pages - 1) * limit < total
                        /\ total <= result.pages * limit

ListFailed ==
    /\ HandledFailure
    /\ \E c \in CallsOf(lastOp'.id) : c.op = "getDocuments"

---------------------------------------------------------------------------
(* Properties of the download extractor.                                   *)

\* The last documents API call was a download whose response arrived.
Downloaded == lastCall.op = "downloadDocument" /\ lastCall.download.created

\* C17, as claimed: for every name f, the empty one included, the header
\* "attachment; filename*=UTF-8''" + percentEncode(f) yields f.
C17_RoundTrip_Original ==
    Downloaded
    => \A f \in Names :
           lastCall.header = Header(RoundTrip(f))
           => lastCall.download.filename = f

\* C17, amended: for every name f that is not empty, the header
\* "attachment; filename*=UTF-8''" + percentEncode(f) yields f; for the
\* empty name it yields the fallback.
C17_RoundTrip ==
    Downloaded
    => \A f \in Names :
           lastCall.header = Header(RoundTrip(f))
           => lastCall.download.filename
                  = IF f # <<>> THEN f ELSE FallbackName(lastCall.documentId)

\* The name "; e-acute" (a delimiter and a character outside ASCII) went
\* through the round trip.
C17_Witness ==
    /\ Downloaded
    /\ lastCall.header = Header(RoundTrip(<<Semicolon, EAcute>>))
    /\ HeaderString(lastCall.header)
           = <<"attachment", Semicolon, " ", "filename*=UTF-8''",
               "%", "3", "B", "%", "C", "3", "%", "A", "9">>
    /\ lastCall.download.filename = <<Semicolon, EAcute>>

\* The name the claimed precedence gives a header: the decoded text of the
\* extended form when it is there (the text itself when it does not decode),
\* else the name of the plain form, else the fallback.
NameByPrecedence(h, fallback) ==
    IF ~h.defined THEN fallback
    ELSE IF h.value.ext.given /\ h.value.ext.value # <<>>
    THEN IF PercentDecode(h.value.ext.value).ok
         THEN PercentDecode(h.value.ext.value).str
         ELSE h.value.ext.value
    ELSE IF h.value.plain.given THEN h.value.plain.value
    ELSE fallback

\* C18, violated by the code: the file name is the decoded extended form,
\* else exactly the name of the plain form, quoted or unquoted, else the
\* fallback document_<id>.pdf.
C18_Precedence ==
    Downloaded
    => lastCall.download.filename
           = NameByPrecedence(lastCall.header,
                              FallbackName(lastCall.documentId))

\* C19, violated by the code: a triggerBrowserDownload call that created an
\* object URL has revoked it and removed its link when it is left, so no
\* object URL stays behind.
C19_AlwaysRevoked ==
    /\ objectUrls = 0
    /\ lastCall.download.created
       => (lastCall.download.revoked /\ ~lastCall.download.attached)

---------------------------------------------------------------------------
(* Properties of the message extraction.                                   *)

\* A string is empty.
IsEmpty(s) == s = <<>>

\* The message by the precedence body, detail, error.message, fixed text,
\* with Unusable telling which strings are passed over.
MessageByPrecedence(error, Unusable(_)) ==
    IF error.hasResponse /\ error.data.kind = "string"
          /\ ~Unusable(error.data.str)
    THEN error.data.str
    ELSE IF error.hasResponse /\ error.data.kind = "detail-string"
               /\ ~Unusable(error.data.str)
    THEN error.data.str
    ELSE IF ~Unusable(error.message) THEN error.message
    ELSE <<"Unexpected network error. Please try again.">>

\* '<status>:<message>', with 'network' for the status of no response.
KeyOf(error, message) ==
    (IF error.hasResponse THEN NumToStr(error.status) ELSE <<"network">>)
        \o <<":">> \o message

\* A generic failure handled published message under key, or was suppressed
\* as a repetition of key.
PublishedAs(message, key) ==
    IF lastOp'.pub # <<>>
    THEN /\ lastOp'.pub[1].toast.message = message
         /\ lastOp'.pub[1].toast.type = "error"
         /\ lastToastKey' = key
    ELSE lastToastKey = key /\ lastToastKey' = key

\* C20, as claimed: the message is the body when it is a non-empty string,
\* else the string detail of an object body, else error.message, else the
\* fixed text; the key is '<status>:<message>'.
C20_MessagePrecedence_Original ==
    [][HandledGeneric
        => PublishedAs(MessageByPrecedence(lastOp'.error, IsEmpty),
                       KeyOf(lastOp'.error,
                             MessageByPrecedence(lastOp'.error, IsEmpty)))
      ]_vars

\* C20, amended: the message is the body when it is a string with a
\* character other than whitespace, else the detail of an object body when
\* that is such a string, else error.message when that is such a string,
\* else the fixed text; the text is published untrimmed; the key is
\* '<status>:<message>', with 'network' when there is no response.
C20_MessagePrecedence ==
    [][HandledGeneric
        => PublishedAs(MessageByPrecedence(lastOp'.error, TrimIsEmpty),
                       KeyOf(lastOp'.error,
                             MessageByPrecedence(lastOp'.error, TrimIsEmpty)))
      ]_vars

\* A failure whose body is an object with a blank detail: its error.message
\* was published, under the key of its status.
C20_Witness ==
    /\ lastOp.kind = "error"
    /\ lastOp.error.data = DetailData(<<" ">>)
    /\ lastOp.error.message = StatusMessage(500)
    /\ Len(lastOp.pub) = 1
    /\ lastOp.pub[1].toast.message = StatusMessage(500)
    /\ lastToastKey = <<"5", "0", "0", ":">> \o StatusMessage(500)

---------------------------------------------------------------------------
(* Properties of the success handler.                                      *)

\* The step in which the response interceptor handled a success.
HandledSuccess == lastOp'.id # lastOp.id /\ lastOp'.kind = "success"

\* C21: handling a successful response calls publishToast for nothing,
\* leaves localStorage, the deduplicator's key and timestamp, the listeners
\* and the location as they were, and hands the caller the response as
\* received: downloadDocument reads the header the server sent.
C21_SuccessPassThrough ==
    [][HandledSuccess
        => /\ lastOp'.pub = <<>>
           /\ lastOp'.removed = <<>>
           /\ ~lastOp'.nav
           /\ storage' = storage
           /\ lastToastKey' = lastToastKey
           /\ lastToastAt' = lastToastAt
           /\ listeners' = listeners
           /\ pathname' = pathname
           /\ navPending' = navPending
           /\ (\E c \in CallsOf(lastOp'.id) : c.op = "downloadDocument")
              => ( /\ lastCall'.id = lastOp'.id
                   /\ lastCall'.header = contentDisposition )
      ]_vars

\* A download answered with a header after an error toast was published:
\* the header reached downloadDocument, the deduplicator holds the toast's
\* key, the credentials are stored.
C21_Witness ==
    /\ lastOp.kind = "success"
    /\ lastCall.op = "downloadDocument"
    /\ lastCall.id = lastOp.id
    /\ lastCall.header = Header(RoundTrip(<<"a">>))
    /\ lastCall.download.filename = <<"a">>
    /\ lastToastKey # <<>>
    /\ listeners = <<ProviderListener>>
    /\ storage = StorageWith(StorageKeys)

---------------------------------------------------------------------------
(* Properties of the ToastProvider.                                        *)

\* The ids of the toasts in a rendered list.
IdsOf(list) == {list[i].id : i \in 1..Len(list)}

\* list without its i-th toast.
Omit(list, i) == SubSeq(list, 1, i - 1) \o SubSeq(list, i + 1, Len(list))

\* A step that called publishToast while the ToastProvider stayed mounted.
PublishedWhileMounted ==
    /\ lastOp' # lastOp
    /\ lastOp'.pub # <<>>
    /\ provider.mounted
    /\ provider'.mounted

\* The step appended one toast for the notification published, under a key
\* no other toast has.
AppendedOnce ==
    \E item \in IdsOf(provider'.toasts) \ IdsOf(provider.toasts) :
        provider'.toasts =
            Append(provider.toasts,
                   [id |-> item, message |-> lastOp'.pub[1].toast.message,
                    type |-> lastOp'.pub[1].toast.type])

\* The step removed one toast whose duration has elapsed, and no other.
RemovedOneDue ==
    \E i \in 1..Len(provider.toasts) :
        /\ provider'.toasts = Omit(provider.toasts, i)
        /\ provider.toasts[i].id[1] + DEFAULT_DURATION_MS <= now

\* C22: while the ToastProvider is mounted, every notification published is
\* appended to the rendered list once, in publish order; the list changes
\* only by that and by the removal of one toast whose duration (5000 ms)
\* has elapsed, which leaves every other toast; and a toast whose duration
\* has elapsed has its removal pending.
C22_RenderedOnce ==
    [][/\ PublishedWhileMounted => AppendedOnce
       /\ (provider.mounted /\ provider'.mounted
             /\ provider'.toasts # provider.toasts)
          => (AppendedOnce \/ RemovedOneDue)
       /\ \A i \in 1..Len(provider.toasts) :
              \E timer \in provider.timers :
                  timer.id = provider.toasts[i].id]_vars

---------------------------------------------------------------------------
(* Properties of the credentials.                                          *)

\* The headers that carry a credential.
CredentialHeaders ==
    { <<"Authorization", "access_token">>, <<"x-csrf-token", "csrf_token">> }

\* A step of the client layer: any step but the login page's store.
ClientLayerStep == ~StoreCredentials

\* C23: no step of the client layer writes a key of localStorage (it leaves
\* a key or removes it); a handled 401 leaves neither token stored and
\* leaves every other call in flight, with its request as sent, as it was;
\* and a request sent carries a credential header only when its key is
\* stored.  Together: from a handled 401 until the login page stores
\* credentials, no request sent carries Authorization or x-csrf-token.
C23_NoCredentialsAfter401 ==
    [][/\ ClientLayerStep
          => \A k \in StorageKeys : storage'[k] \in {storage[k], Absent}
       /\ (HandledFailure /\ IsUnauthorized(lastOp'.error))
          => /\ storage'["access_token"] = Absent
             /\ storage'["csrf_token"] = Absent
             /\ \A c \in calls : c.id # lastOp'.id => c \in calls'
       /\ nextId' # nextId
          => \A h \in CredentialHeaders :
                 HeaderValues(lastRequest'.sent.headers, h[1]) # {}
                     => storage[h[2]] # Absent
      ]_vars

---------------------------------------------------------------------------
(* Properties of the session warning.                                      *)

\* The failures of the history that were published.
PublishedFailures == {i \in 1..Len(fails) : fails[i].delivered}

\* The last of them.
LastPublished == CHOOSE i \in PublishedFailures :
                     \A j \in PublishedFailures : j <= i

\* C24: every handled 401 hands one 'Session expired. Please log in again.'
\* warning to publishToast, whatever was handled before and however long
\* ago, and leaves lastToastKey and lastToastAt as they were, so that every
\* generic failure is a duplicate after it exactly if it was one before; a
\* generic failure is dropped exactly when the last generic failure
\* published had its pair and was handled less than 3000 ms before it,
\* whatever 401 failures were handled between the two.
C24_WarningBypassesDedup ==
    [][/\ (HandledFailure /\ IsUnauthorized(lastOp'.error))
          => /\ WarningPublished(lastOp')
             /\ lastToastKey' = lastToastKey
             /\ lastToastAt' = lastToastAt
             /\ \A error \in GenericErrors :
                    LET key == ToastKey(error, ExtractErrorMessage(error))
                    IN  IsDuplicate(key, lastToastKey', lastToastAt', now')
                          <=> IsDuplicate(key, lastToastKey, lastToastAt, now)
       /\ (HandledFailure /\ ~IsUnauthorized(lastOp'.error)
             /\ ~IsCanceled(lastOp'.error))
          => (lastOp'.pub = <<>>
                <=> /\ PublishedFailures # {}
                    /\ fails[LastPublished].pair
                           = StatusAndMessage(lastOp'.error)
                    /\ now - fails[LastPublished].at < Window)
      ]_vars

\* A second 401 was handled less than 3000 ms after the first, after a
\* generic failure had set the deduplicator: its warning was published and
\* the deduplicator still holds the generic failure's key.
C24_Witness ==
    /\ Handled401
    /\ WarningPublished(lastOp)
    /\ Len(hist401) = 2
    /\ now < ERROR_TOAST_DEDUP_WINDOW_MS
    /\ fails # <<>>
    /\ lastToastKey # <<>>

---------------------------------------------------------------------------
(* Properties of the Library view.                                         *)

\* C25: when no load is awaited any more, the documents, the total and the
\* page count shown are those of the load issued last.
C25_LatestShown ==
    (library.loads = {} /\ library.latest.id # 0)
        => /\ library.latest.settled
           /\ library.docs = library.latest.docs
           /\ library.total = library.latest.total
           /\ library.pages = library.latest.pages

\* The requests of download handlers of the view settled by this step.
HandlerSettled == library.downloads \ library'.downloads

\* The downloads of single documents by handlers of the view in flight.
DocumentDownloads ==
    {c \in calls : c.id \in library.downloads /\ c.op = "downloadDocument"}

\* C26: the step in which a download handler's operation settles publishes
\* the handler's toast ('PDF download started.' or 'ZIP download started.')
\* when the operation resolved and no such toast when it rejected; once no
\* handler's download is in flight, neither marker is set; and while a
\* download of a document is in flight, downloadingDocId is that document.
C26_DownloadHandlers ==
    [][/\ \A r \in HandlerSettled :
              LET own == {i \in 1..Len(lastOp'.pub) :
                              lastOp'.pub[i].toast
                                  \in {PdfStartedToast, ZipStartedToast}}
                  c == CHOOSE c \in CallsOf(r) : TRUE
              IN  /\ lastCall'.id = r
                  /\ lastCall'.settled = "resolved"
                        => /\ Cardinality(own) = 1
                           /\ \A i \in own :
                                  lastOp'.pub[i].toast
                                      = IF c.op = "downloadDocument"
                                        THEN PdfStartedToast
                                        ELSE ZipStartedToast
                  /\ lastCall'.settled # "resolved" => own = {}
       /\ library'.downloads = {}
              => /\ library'.downloadingDocId = Undefined
                 /\ ~library'.downloadingAll
       /\ \A c \in DocumentDownloads' :
              library'.downloadingDocId = Num(c.documentId)
      ]_vars

---------------------------------------------------------------------------
(* Properties of repeated subscriptions.                                   *)

\* The number of times handler h occurs in the sequence s.
Occurrences(s, h) == Cardinality({i \in 1..Len(s) : s[i] = h})

\* C27: for a handler passed to subscribeToasts twice: the second call
\* registers nothing more; a publishToast call that starts with it
\* registered invokes it exactly once; calling either function returned
\* for it leaves it unregistered, and a further call of such a function
\* changes nothing.
C27_SubscribedTwice ==
    [][/\ \A h \in RepeatHandlers :
              (Resubscribe(h) /\ h \in Range(listeners))
                  => listeners' = listeners
       /\ \A h \in resubscribed' : Occurrences(listeners', h) <= 1
       /\ Publish
              => \A h \in resubscribed \cap Range(listeners) :
                     Occurrences(lastOp'.pub[1].called, h) = 1
       /\ \A h \in resubscribed :
              Unsubscribe(h)
                  => /\ h \notin Range(listeners')
                     /\ h \notin Range(listeners) => listeners' = listeners
      ]_vars

====
